---- MODULE Spec2Model ----
(***************************************************************************)
(* Model of the cash-distribution engine of kasaproject (calc.py) and of   *)
(* the period close that threads its carry (main.py, cmd_close_month).     *)
(*                                                                         *)
(* Number representation.  The code computes in decimal.Decimal.  Amounts  *)
(* that enter the engine (total_cash, keep_cash, advances, carry) are      *)
(* integers counting cents; a percent is an integer counting hundredths of *)
(* a percent (5000 = 50%, 9999 = 99.99%).  The unrounded amounts of the    *)
(* engine (entitlement, raw balance, total_positive) are integers counting *)
(* micro units, 10^-6 of the currency unit: cents * hundredths = micro, so *)
(* distributable * percent / 100 is exact, as it is in Decimal.  The one   *)
(* inexact Decimal operation, the division distributable / total_positive  *)
(* and the product pay * scale that follows it, is carried out on digit    *)
(* sequences at the precision of the decimal context.                      *)
(***************************************************************************)
EXTENDS Integers, Sequences, FiniteSets, TLC

VARIABLES month, holders, total_cash, keep_cash, advances, carry, result, pc, round,
          first_call, carry_store, files

vars == <<month, holders, total_cash, keep_cash, advances, carry, result, pc, round,
          first_call, carry_store, files>>

inputs == <<month, holders, total_cash, keep_cash, advances, carry>>

(***************************************************************************)
(* Program constants.                                                      *)
(***************************************************************************)
\* TWOPLACES = Decimal("0.01"): one cent is 10^4 micro units.
CentScale == 10000

\* The digits of CentScale after the leading 1.
CentDigits == 4

\* Decimal("100") percent, counted in hundredths of a percent.
HundredPercent == 10000

\* Precision of the decimal context the module computes in (significant digits).
Prec == 28

(***************************************************************************)
(* Bounds of the model.                                                    *)
(***************************************************************************)
MaxHolders == 2
MaxCash == 2
MaxRounds == 1

(***************************************************************************)
(* Strings and dicts.                                                      *)
(***************************************************************************)
\* str.lower() on the names and keys of the model.
Lower(s) ==
    CASE s = "Ali" -> "ali"
      [] s = "ALI" -> "ali"
      [] s = "Bob" -> "bob"
      [] s = "BOB" -> "bob"
      [] OTHER -> s

EmptyDict == [k \in {} |-> 0]

\* dict.get(k, default)
DictGet(d, k, default) == IF k \in DOMAIN d THEN d[k] ELSE default

\* d[k] = v
DictPut(d, k, v) == [x \in (DOMAIN d) \cup {k} |-> IF x = k THEN v ELSE d[x]]

\* sum(d.values(), Decimal("0"))
RECURSIVE SumValuesOver(_, _)
SumValuesOver(d, ks) ==
    IF ks = {} THEN 0
    ELSE LET k == CHOOSE x \in ks : TRUE IN d[k] + SumValuesOver(d, ks \ {k})

SumValues(d) == SumValuesOver(d, DOMAIN d)

Abs(x) == IF x < 0 THEN -x ELSE x

Max(a, b) == IF a >= b THEN a ELSE b

(***************************************************************************)
(* Decimal arithmetic.  A Dec is [coef |-> <<d1, ..., dPrec>>, exp |-> e], *)
(* the number d1...dPrec * 10^e, counted in micro units.                   *)
(***************************************************************************)
ZeroCoef == [i \in 1..Prec |-> 0]

OneCoef == [i \in 1..Prec |-> IF i = 1 THEN 1 ELSE 0]

DecZero == [coef |-> ZeroCoef, exp |-> 0]

\* Decimal("1")
DecOne == [coef |-> OneCoef, exp |-> -(Prec - 1)]

DecIsZero(x) == \A i \in 1..Prec : x.coef[i] = 0

\* x < 1, for x >= 0: the first digit of a nonzero coefficient is not 0.
DecLtOne(x) == DecIsZero(x) \/ x.exp + Prec <= 0

RECURSIVE IntOf(_, _)
\* The integer the first n digits of q spell.
IntOf(q, n) == IF n = 0 THEN 0 ELSE 10 * IntOf(q, n - 1) + q[n]

RECURSIVE DigitsOf(_)
\* The digits of n > 0, most significant first.
DigitsOf(n) == IF n < 10 THEN <<n>> ELSE Append(DigitsOf(n \div 10), n % 10)

RECURSIVE IncrAt(_, _)
\* q + 1 at digit i, with carry; q is not all nines.
IncrAt(q, i) ==
    IF q[i] = 9 THEN IncrAt([q EXCEPT ![i] = 0], i - 1)
    ELSE [q EXCEPT ![i] = q[i] + 1]

\* The coefficient q * 10^e after the rounding decision `up` of the context.
RoundCoef(q, e, up) ==
    IF ~up THEN [coef |-> q, exp |-> e]
    ELSE IF \A i \in 1..Prec : q[i] = 9 THEN [coef |-> OneCoef, exp |-> e + 1]
    ELSE [coef |-> IncrAt(q, Prec), exp |-> e]

RECURSIVE LeadingZeros(_, _)
\* The zeros after the point of r / t before its first significant digit (0 < r < t).
LeadingZeros(r, t) == IF 10 * r >= t THEN 0 ELSE 1 + LeadingZeros(10 * r, t)

RECURSIVE ShiftRem(_, _)
ShiftRem(r, t) == IF 10 * r >= t THEN r ELSE ShiftRem(10 * r, t)

RECURSIVE DivDigits(_, _, _)
\* The next n digits of the long division with remainder r.
DivDigits(r, t, n) ==
    IF n = 0 THEN <<>>
    ELSE <<(10 * r) \div t>> \o DivDigits((10 * r) % t, t, n - 1)

RECURSIVE DivRem(_, _, _)
\* The remainder after n more digits.
DivRem(r, t, n) == IF n = 0 THEN r ELSE DivRem((10 * r) % t, t, n - 1)

\* Decimal division d / t for 0 <= d < t: the quotient rounded to Prec
\* significant digits, ROUND_HALF_EVEN (the decimal context's rounding).
DecDivide(d, t) ==
    IF d = 0 THEN DecZero
    ELSE LET z == LeadingZeros(d, t)
             r0 == ShiftRem(d, t)
             q == DivDigits(r0, t, Prec)
             r == DivRem(r0, t, Prec)
             up == 2 * r > t \/ (2 * r = t /\ q[Prec] % 2 = 1)
         IN RoundCoef(q, -(z + Prec), up)

RECURSIVE MulFrom(_, _, _, _)
\* n * (the first i digits of q) + c: its low i digits and what is above them.
MulFrom(q, n, i, c) ==
    IF i = 0 THEN [low |-> <<>>, high |-> c]
    ELSE LET v == n * q[i] + c
             rest == MulFrom(q, n, i - 1, v \div 10)
         IN [low |-> Append(rest.low, v % 10), high |-> rest.high]

\* Decimal product n * x for an integer n > 0 (micro units): exact when it has
\* at most Prec significant digits, else rounded to Prec, ROUND_HALF_EVEN.
DecMultiply(n, x) ==
    IF DecIsZero(x) THEN DecZero
    ELSE LET p == MulFrom(x.coef, n, Prec, 0)
         IN IF p.high = 0 THEN [coef |-> p.low, exp |-> x.exp]
            ELSE LET hd == DigitsOf(p.high)
                     h == Len(hd)
                     all == hd \o p.low
                     kept == SubSeq(all, 1, Prec)
                     first == all[Prec + 1]
                     restNonZero == \E i \in (Prec + 2)..(Prec + h) : all[i] # 0
                     up == first > 5
                           \/ (first = 5 /\ (restNonZero \/ kept[Prec] % 2 = 1))
                IN RoundCoef(kept, x.exp + h, up)

\* _quantize of a Dec x >= 0, in cents: quantize(TWOPLACES, ROUND_HALF_UP).
DecQuantize(x) ==
    IF DecIsZero(x) THEN 0
    ELSE LET n == Prec + x.exp - CentDigits    \* digits left of the cents' point
             whole == IF n <= 0 THEN 0 ELSE IntOf(x.coef, n)
             next == IF n < 0 \/ n >= Prec THEN 0 ELSE x.coef[n + 1]
         IN whole + (IF next >= 5 THEN 1 ELSE 0)

\* _quantize of an exact amount in micro units, in cents: ROUND_HALF_UP rounds
\* to the nearest cent and a tie away from zero.
Quantize(val) ==
    LET q == (Abs(val) + CentScale \div 2) \div CentScale
    IN IF val < 0 THEN -q ELSE q

(***************************************************************************)
(* calc.py                                                                 *)
(***************************************************************************)
RECURSIVE SumPercent(_, _)
\* sum((h.percent for h in holders), Decimal("0")) over the first n holders
SumPercent(hs, n) == IF n = 0 THEN 0 ELSE SumPercent(hs, n - 1) + hs[n].percent

\* Mutant of validate_shareholders: the sum is compared within a tolerance of
\* 0.01 instead of exactly.
ValidateWithTolerance(hs) == Abs(SumPercent(hs, Len(hs)) - HundredPercent) <= 1

\* validate_shareholders returns (TRUE) or raises DistributionError (FALSE).
validate_shareholders(hs) == SumPercent(hs, Len(hs)) = HundredPercent

\* Mutant of Lookup: any key that equals the name when case is ignored is
\* taken.
LookupAnyCase(d, name) ==
    IF \E k \in DOMAIN d : Lower(k) = Lower(name)
    THEN d[CHOOSE k \in DOMAIN d : Lower(k) = Lower(name)]
    ELSE 0

\* Mutant of Lookup: only the lowercased key is looked up.
LookupLowerOnly(d, name) == DictGet(d, Lower(name), 0)

\* d.get(h.name, d.get(name_key, Decimal("0")))
Lookup(d, name) == DictGet(d, name, DictGet(d, Lower(name), 0))

RECURSIVE EntitlementsLoop(_, _, _)
\* The dict entitlements after the first n holders; distributable in cents.
EntitlementsLoop(hs, distributable, n) ==
    IF n = 0 THEN EmptyDict
    ELSE DictPut(EntitlementsLoop(hs, distributable, n - 1),
                 Lower(hs[n].name), distributable * hs[n].percent)

\* raw = hak - avans + prev_carry, in micro units (avans, prev_carry in cents)
RawBalance(hak, avans, prev_carry) ==
    hak - avans * CentScale + prev_carry * CentScale

\* The raw the second loop computes in the iteration of holder h.
RawOf(h, entitlements, adv, car) ==
    LET name_key == Lower(h.name)
        hak == entitlements[name_key]
        avans == Lookup(adv, h.name)
        prev_carry == Lookup(car, h.name)
    IN RawBalance(hak, avans, prev_carry)

RECURSIVE RawLoop(_, _, _, _, _)
\* raw_balances and total_positive after the first n holders.
RawLoop(hs, entitlements, adv, car, n) ==
    IF n = 0 THEN [raw_balances |-> EmptyDict, total_positive |-> 0]
    ELSE LET prev == RawLoop(hs, entitlements, adv, car, n - 1)
             name_key == Lower(hs[n].name)
             raw == RawOf(hs[n], entitlements, adv, car)
         IN [raw_balances |-> DictPut(prev.raw_balances, name_key, raw),
             total_positive |-> IF raw > 0 THEN prev.total_positive + raw
                                ELSE prev.total_positive]

\* Mutant of Shortfall: >= for >, and no test of the divisor.
ShortfallNotStrict(distributable, total_positive) ==
    total_positive >= distributable

\* The shortfall test of the scale; distributable in micro units.
Shortfall(distributable, total_positive) ==
    total_positive > distributable /\ total_positive > 0

\* distributable / total_positive raises (decimal.DivisionByZero, or
\* InvalidOperation for 0 / 0) when the divisor is 0.
DivisionRaises(distributable, total_positive) ==
    Shortfall(distributable, total_positive) /\ total_positive = 0

\* Mutant of Scale: the shortfall branch is never taken.
ScaleAlwaysOne(distributable, total_positive) == DecOne

\* scale = Decimal("1"), or distributable / total_positive on a shortfall.
Scale(distributable, total_positive) ==
    IF Shortfall(distributable, total_positive)
    THEN DecDivide(distributable, total_positive)
    ELSE DecOne

\* The value handed to _quantize for paid: the clamped raw balance (micro
\* units), and its product with the scale when scale < 1.
UnroundedPay(raw, scale) ==
    LET pay == IF raw > 0 THEN raw ELSE 0
    IN [pay |-> pay,
        scaled |-> DecLtOne(scale),
        product |-> IF DecLtOne(scale) THEN DecMultiply(pay, scale) ELSE DecZero]

\* Mutant of Pay: the raw balance is rounded to cents before it is scaled, and
\* the product is rounded again.
PayRoundsFirst(raw, scale) ==
    LET pay == Quantize(IF raw > 0 THEN raw ELSE 0)
    IN IF DecLtOne(scale)
       THEN DecQuantize(DecMultiply(pay * CentScale, scale))
       ELSE pay

\* Mutant of Pay: a raw balance that is not positive is not clamped to 0.
PayUnclamped(raw, scale) ==
    IF raw <= 0 THEN Quantize(raw)
    ELSE IF DecLtOne(scale) THEN DecQuantize(DecMultiply(raw, scale))
    ELSE Quantize(raw)

\* Mutant of Pay: the scale is not applied.
PayUnscaled(raw, scale) == Quantize(IF raw > 0 THEN raw ELSE 0)

\* pay = raw if raw > 0 else 0; if scale < 1: pay = pay * scale; _quantize(pay)
Pay(raw, scale) ==
    LET pay == IF raw > 0 THEN raw ELSE 0
    IN IF DecLtOne(scale)
       THEN DecQuantize(DecMultiply(pay, scale))
       ELSE Quantize(pay)

\* new_carry = raw - pay, unrounded (micro units; pay in cents)
NewCarry(raw, pay) == raw - pay * CentScale

\* The ResultRow of holder h.
Row(h, entitlements, raw_balances, adv, car, scale) ==
    LET name_key == Lower(h.name)
        hak == entitlements[name_key]
        avans == Lookup(adv, h.name)
        prev_carry == Lookup(car, h.name)
        raw == raw_balances[name_key]
        pay == Pay(raw, scale)
    IN [name |-> h.name,
        percent |-> h.percent,
        entitlement |-> Quantize(hak),
        advance |-> Quantize(avans * CentScale),
        prev_carry |-> Quantize(prev_carry * CentScale),
        paid |-> pay,
        new_carry |-> Quantize(NewCarry(raw, pay))]

RECURSIVE PayLoopKeepsLast(_, _, _, _, _, _, _)
\* Mutant of PayLoop: total_paid = pay for total_paid += pay.
PayLoopKeepsLast(hs, entitlements, raw_balances, adv, car, scale, n) ==
    IF n = 0 THEN [rows |-> <<>>, total_paid |-> 0]
    ELSE LET prev == PayLoopKeepsLast(hs, entitlements, raw_balances, adv, car, scale, n - 1)
             row == Row(hs[n], entitlements, raw_balances, adv, car, scale)
         IN [rows |-> Append(prev.rows, row),
             total_paid |-> row.paid]

RECURSIVE PayLoopKeepsTotal(_, _, _, _, _, _, _)
\* Mutant of PayLoop: total_paid is not reset between calls, it goes on from
\* the total of the call before.
PayLoopKeepsTotal(hs, entitlements, raw_balances, adv, car, scale, n) ==
    IF n = 0
    THEN [rows |-> <<>>,
          total_paid |-> IF first_call.made THEN first_call.result.total_paid ELSE 0]
    ELSE LET prev == PayLoopKeepsTotal(hs, entitlements, raw_balances, adv, car, scale, n - 1)
             row == Row(hs[n], entitlements, raw_balances, adv, car, scale)
         IN [rows |-> Append(prev.rows, row),
             total_paid |-> prev.total_paid + row.paid]

RECURSIVE PayLoopPrepends(_, _, _, _, _, _, _)
\* Mutant of PayLoop: rows.insert(0, row) for rows.append(row).
PayLoopPrepends(hs, entitlements, raw_balances, adv, car, scale, n) ==
    IF n = 0 THEN [rows |-> <<>>, total_paid |-> 0]
    ELSE LET prev == PayLoopPrepends(hs, entitlements, raw_balances, adv, car, scale, n - 1)
             row == Row(hs[n], entitlements, raw_balances, adv, car, scale)
         IN [rows |-> <<row>> \o prev.rows,
             total_paid |-> prev.total_paid + row.paid]

RECURSIVE PayLoop(_, _, _, _, _, _, _)
\* rows and total_paid (cents) after the first n holders.
PayLoop(hs, entitlements, raw_balances, adv, car, scale, n) ==
    IF n = 0 THEN [rows |-> <<>>, total_paid |-> 0]
    ELSE LET prev == PayLoop(hs, entitlements, raw_balances, adv, car, scale, n - 1)
             row == Row(hs[n], entitlements, raw_balances, adv, car, scale)
         IN [rows |-> Append(prev.rows, row),
             total_paid |-> prev.total_paid + row.paid]

\* What a call that raised DistributionError leaves: no result.
Raised(reason) ==
    [status |-> "DistributionError", reason |-> reason, month |-> "",
     distributable |-> 0, rows |-> <<>>, total_entitlement |-> 0, total_paid |-> 0]

\* What a call that raised any other exception leaves: no result.
Crashed(exception) ==
    [status |-> exception, reason |-> "", month |-> "",
     distributable |-> 0, rows |-> <<>>, total_entitlement |-> 0, total_paid |-> 0]

\* The order of the three checks at the head of compute_distribution.
FailedCheck(hs, tc, kc) ==
    IF ~validate_shareholders(hs) THEN "percent"
    ELSE IF kc < 0 THEN "keep_cash"
    ELSE IF tc - kc < 0 THEN "distributable"
    ELSE "none"

compute_distribution(m, hs, tc, kc, adv, car) ==
    IF FailedCheck(hs, tc, kc) # "none" THEN Raised(FailedCheck(hs, tc, kc))
    ELSE LET distributable == tc - kc
             entitlements == EntitlementsLoop(hs, distributable, Len(hs))
             rl == RawLoop(hs, entitlements, adv, car, Len(hs))
         IN IF DivisionRaises(distributable * CentScale, rl.total_positive)
            THEN Crashed("DivisionByZero")
            ELSE
         LET scale == Scale(distributable * CentScale, rl.total_positive)
             pl == PayLoop(hs, entitlements, rl.raw_balances, adv, car, scale, Len(hs))
         IN [status |-> "ok", reason |-> "", month |-> m,
             distributable |-> Quantize(distributable * CentScale),
             rows |-> pl.rows,
             total_entitlement |-> Quantize(SumValues(entitlements)),
             total_paid |-> Quantize(pl.total_paid * CentScale)]

(***************************************************************************)
(* main.py: the period close threads the carry of one result into the next *)
(* call.                                                                   *)
(***************************************************************************)
RECURSIVE CarryMergedFromRows(_, _)
\* Mutant of CarryFromRows: the rows are written into the carry that was
\* loaded, not into an empty dict.
CarryMergedFromRows(rows, n) ==
    IF n = 0 THEN carry
    ELSE DictPut(CarryMergedFromRows(rows, n - 1), rows[n].name, rows[n].new_carry)

RECURSIVE CarryFromRows(_, _)
\* new_carry[row.name] = row.new_carry for the first n rows
CarryFromRows(rows, n) ==
    IF n = 0 THEN EmptyDict
    ELSE DictPut(CarryFromRows(rows, n - 1), rows[n].name, rows[n].new_carry)

(***************************************************************************)
(* io_store.py: carry.json holds each balance as the text of its Decimal.  *)
(* The text of an amount of two decimals is its sign, its integer digits   *)
(* and its two fraction digits.                                            *)
(***************************************************************************)
\* str(v) for a Decimal v of two decimals (v in cents)
DecimalToStr(v) == [neg |-> v < 0, units |-> Abs(v) \div 100, frac |-> Abs(v) % 100]

\* Decimal(str(v)) for the text of a Decimal of two decimals, in cents
StrToDecimal(t) == (IF t.neg THEN -1 ELSE 1) * (100 * t.units + t.frac)

\* {k: Decimal(str(v)) for k, v in raw.items()}
to_decimal_map(raw) == [k \in DOMAIN raw |-> StrToDecimal(raw[k])]

\* {k: str(v) for k, v in raw.items()}
decimal_to_str_map(raw) == [k \in DOMAIN raw |-> DecimalToStr(raw[k])]

\* load_carry(): the balances of carry.json
load_carry(store) == to_decimal_map(store)

\* save_carry(CarryState(balances)): carry.json is written anew
save_carry(balances) == decimal_to_str_map(balances)

(***************************************************************************)
(* The inputs the model draws from.                                        *)
(***************************************************************************)
Names == {"Ali", "ali", "Bob"}

\* hundredths of a percent: 0%, 50%, 100%
Percents == {0, 5000, 10000}

Keys == {"Ali", "ali", "ALI", "Bob"}

\* cents
AdvanceValues == {1}

\* cents
CarryValues == {-1, 1, 2}

Months == {"2025-12"}

Holder(n, p) == [name |-> n, percent |-> p]

\* Registries of 99.99%, of 100.01%, of 0.01% + 99.99%, and of 150% - 50%.
EdgeRegistries ==
    { <<Holder("Ali", 9999)>>,
      <<Holder("Ali", 10000), Holder("Bob", 1)>>,
      <<Holder("Ali", 1), Holder("Bob", 9999)>>,
      <<Holder("Ali", 15000), Holder("Bob", -5000)>> }

Registries ==
    UNION {[1..n -> [name : Names, percent : Percents]] : n \in 0..MaxHolders}
    \cup EdgeRegistries

\* The dicts with at most n entries.
Dicts(keys, values, n) ==
    UNION {[ks -> values] : ks \in {x \in SUBSET keys : Cardinality(x) <= n}}

AdvanceDicts == Dicts(Keys, AdvanceValues, 1)

CarryDicts == Dicts(Keys, CarryValues, 1)

\* The settlements of the specification's examples: 60%/40% of 1000.00;
\* 100% of 100.00 after an advance of 150.00; 50%/50% of 100.00 with 150.00
\* carried for the first holder.  And one whose scaled payouts are exact half
\* cents under a scale that has no finite decimal expansion: 50%/50% of 0.11
\* with 0.11 carried for each holder (raw 0.165 each, scale 1/3).  And one
\* whose advances and carry hold a holder's exact name and its lowercased form
\* with different amounts.
Examples ==
    { [holders |-> <<Holder("Ali", 6000), Holder("Bob", 4000)>>,
       total_cash |-> 100000, keep_cash |-> 0,
       advances |-> EmptyDict, carry |-> EmptyDict],
      [holders |-> <<Holder("Ali", 10000)>>,
       total_cash |-> 10000, keep_cash |-> 0,
       advances |-> [k \in {"Ali"} |-> 15000], carry |-> EmptyDict],
      [holders |-> <<Holder("Ali", 5000), Holder("Bob", 5000)>>,
       total_cash |-> 10000, keep_cash |-> 0,
       advances |-> EmptyDict, carry |-> [k \in {"Ali"} |-> 15000]],
      [holders |-> <<Holder("Ali", 5000), Holder("Bob", 5000)>>,
       total_cash |-> 11, keep_cash |-> 0,
       advances |-> EmptyDict, carry |-> [k \in {"Ali", "Bob"} |-> 11]],
      [holders |-> <<Holder("Ali", 10000)>>,
       total_cash |-> 10, keep_cash |-> 0,
       advances |-> [k \in {"Ali", "ali"} |-> IF k = "Ali" THEN 1 ELSE 2],
       carry |-> [k \in {"Ali", "ali"} |-> IF k = "Ali" THEN -3 ELSE 4]] }

\* Which of shareholders.json and ledger.json exist, and whether the ledger
\* has an entry for the month.
AllFiles == [shareholders |-> TRUE, ledger |-> TRUE, has_month |-> TRUE]

NoResult ==
    [status |-> "none", reason |-> "", month |-> "",
     distributable |-> 0, rows |-> <<>>, total_entitlement |-> 0, total_paid |-> 0]

\* No call of compute_distribution has been made yet.
NoCall == [made |-> FALSE]

\* The arguments of a call and what it returned or raised.
Call(m, hs, tc, kc, adv, car, res) ==
    [made |-> TRUE, month |-> m, holders |-> hs, total_cash |-> tc, keep_cash |-> kc,
     advances |-> adv, carry |-> car, result |-> res]

(***************************************************************************)
(* The state machine: a call of compute_distribution on inputs drawn from  *)
(* the sets above, and the next, empty period on the carry it returned.    *)
(***************************************************************************)
Init ==
    /\ month \in Months
    /\ \/ /\ holders \in Registries
          /\ total_cash \in 0..MaxCash
          /\ keep_cash \in -1..1
          /\ advances \in AdvanceDicts
          /\ carry \in CarryDicts
       \/ \E e \in Examples :
             /\ holders = e.holders
             /\ total_cash = e.total_cash
             /\ keep_cash = e.keep_cash
             /\ advances = e.advances
             /\ carry = e.carry
    /\ result = NoResult
    /\ pc = "ready"
    /\ round = 0
    /\ first_call = NoCall
    /\ carry_store = EmptyDict
    /\ files = AllFiles

\* Mutant of Compute: the call writes the new carry into the carry dict it
\* was given.
ComputeInPlace ==
    /\ pc \in {"ready", "again"}
    /\ result' = compute_distribution(month, holders, total_cash, keep_cash, advances, carry)
    /\ pc' = IF pc = "ready" THEN "done" ELSE "redone"
    /\ carry' = IF result'.status = "ok"
                THEN [k \in DOMAIN carry \cup {result'.rows[i].name : i \in 1..Len(result'.rows)} |->
                        IF \E i \in 1..Len(result'.rows) : result'.rows[i].name = k
                        THEN result'.rows[CHOOSE i \in 1..Len(result'.rows) :
                                             result'.rows[i].name = k].new_carry
                        ELSE carry[k]]
                ELSE carry
    /\ first_call' = IF first_call.made THEN first_call
                     ELSE Call(month, holders, total_cash, keep_cash, advances, carry, result')
    /\ UNCHANGED <<month, holders, total_cash, keep_cash, advances, round, carry_store,
                   files>>

\* result = compute_distribution(month, holders, total_cash, keep_cash, advances, carry)
\* The first call made is remembered with what it returned.
Compute ==
    /\ pc \in {"ready", "again"}
    /\ result' = compute_distribution(month, holders, total_cash, keep_cash, advances, carry)
    /\ pc' = IF pc = "ready" THEN "done" ELSE "redone"
    /\ first_call' = IF first_call.made THEN first_call
                     ELSE Call(month, holders, total_cash, keep_cash, advances, carry, result')
    /\ UNCHANGED <<inputs, round, carry_store, files>>

\* The carry of the rows becomes the carry of the next period, whose ledger
\* entry has no cash and no advances.
NextPeriod ==
    /\ pc = "done"
    /\ result.status = "ok"
    /\ round < MaxRounds
    /\ carry' = CarryFromRows(result.rows, Len(result.rows))
    /\ total_cash' = 0
    /\ keep_cash' = 0
    /\ advances' = EmptyDict
    /\ result' = NoResult
    /\ pc' = "ready"
    /\ round' = round + 1
    /\ UNCHANGED <<month, holders, first_call, carry_store, files>>

Next == Compute \/ NextPeriod

Spec == Init /\ [][Next]_vars

(***************************************************************************)
(* The close of a period, cmd_close_month: the stores are loaded, the       *)
(* distribution is computed and, unless it raised, the carry of its rows is *)
(* written to the carry store.  The registry and the ledger entry of the    *)
(* month stay as they are, and the month can be closed again.               *)
(***************************************************************************)
\* The registries of the shareholder store.
StoredRegistries ==
    { <<Holder("Ali", 10000)>>,
      <<Holder("Ali", 5000), Holder("Bob", 5000)>>,
      <<Holder("Ali", 5000), Holder("ali", 5000)>>,
      <<Holder("Ali", 0), Holder("Ali", 10000)>>,
      <<Holder("Ali", 9999)>> }

\* The contents of carry.json: a missing file reads as the empty dict.
StoredCarries ==
    {save_carry(c) : c \in CarryDicts}
    \cup {save_carry([k \in {"Ali", "ali", "Bob"} |-> IF k = "Bob" THEN -105 ELSE 250])}

\* The stores as cmd_close_month can find them: complete, without the
\* registry, without the ledger, without the month in the ledger.
StoredFiles ==
    { AllFiles,
      [shareholders |-> FALSE, ledger |-> TRUE, has_month |-> TRUE],
      [shareholders |-> TRUE, ledger |-> FALSE, has_month |-> FALSE],
      [shareholders |-> TRUE, ledger |-> TRUE, has_month |-> FALSE] }

CloseInit ==
    /\ month \in Months
    /\ holders \in StoredRegistries
    /\ total_cash \in 0..MaxCash
    /\ keep_cash \in -1..1
    /\ advances \in AdvanceDicts
    /\ carry_store \in StoredCarries
    /\ files \in StoredFiles
    /\ carry = EmptyDict
    /\ result = NoResult
    /\ pc = "start"
    /\ round = 0
    /\ first_call = NoCall

\* The exception load_shareholders or load_ledger_entry raises, "none" when
\* the registry and the ledger entry of the month are there.
LoadError ==
    IF ~files.shareholders THEN "FileNotFoundError"
    ELSE IF ~files.ledger THEN "FileNotFoundError"
    ELSE IF ~files.has_month THEN "KeyError"
    ELSE "none"

\* holders, ledger and carry_state are loaded; at most MaxRounds + 1 closes.
LoadStores ==
    /\ pc \in {"start", "closed"}
    /\ round <= MaxRounds
    /\ LoadError = "none"
    /\ carry' = load_carry(carry_store)
    /\ result' = NoResult
    /\ pc' = "ready"
    /\ UNCHANGED <<month, holders, total_cash, keep_cash, advances, round,
                   first_call, carry_store, files>>

\* load_shareholders or load_ledger_entry raises: the exception leaves
\* cmd_close_month before anything is computed.
LoadFails ==
    /\ pc \in {"start", "closed"}
    /\ round <= MaxRounds
    /\ LoadError # "none"
    /\ result' = Crashed(LoadError)
    /\ pc' = "closed"
    /\ round' = round + 1
    /\ UNCHANGED <<inputs, first_call, carry_store, files>>

\* Mutant of ReturnOnError: the handler does not return, and the carry of the
\* rows of no result is saved.
ReturnOnErrorSaves ==
    /\ pc = "done"
    /\ result.status = "DistributionError"
    /\ carry_store' = save_carry(CarryFromRows(result.rows, Len(result.rows)))
    /\ pc' = "closed"
    /\ round' = round + 1
    /\ UNCHANGED <<inputs, result, first_call, files>>

\* except DistributionError: the message is printed and the command returns.
ReturnOnError ==
    /\ pc = "done"
    /\ result.status = "DistributionError"
    /\ pc' = "closed"
    /\ round' = round + 1
    /\ UNCHANGED <<inputs, result, first_call, carry_store, files>>

\* new_carry[row.name] = row.new_carry for every row; save_carry(new_carry)
SaveCarry ==
    /\ pc = "done"
    /\ result.status = "ok"
    /\ carry_store' = save_carry(CarryFromRows(result.rows, Len(result.rows)))
    /\ pc' = "closed"
    /\ round' = round + 1
    /\ UNCHANGED <<inputs, result, first_call, files>>

CloseNext == LoadStores \/ LoadFails \/ Compute \/ ReturnOnError \/ SaveCarry

CloseSpec == CloseInit /\ [][CloseNext]_vars

(***************************************************************************)
(* Repeated calls: the first call of compute_distribution is made again,   *)
(* directly or after the calls of the periods that followed it.            *)
(***************************************************************************)
RepeatInit ==
    /\ Init
    /\ holders \in StoredRegistries \cup EdgeRegistries

\* compute_distribution is called again with the arguments of the first call,
\* after the calls made since (one when round = 0, two when round = 1, ...).
Again ==
    /\ pc = "done"
    /\ first_call.made
    /\ month' = first_call.month
    /\ holders' = first_call.holders
    /\ total_cash' = first_call.total_cash
    /\ keep_cash' = first_call.keep_cash
    /\ advances' = first_call.advances
    /\ carry' = first_call.carry
    /\ result' = NoResult
    /\ pc' = "again"
    /\ UNCHANGED <<round, first_call, carry_store, files>>

RepeatNext == Compute \/ NextPeriod \/ Again

RepeatSpec == RepeatInit /\ [][RepeatNext]_vars

(***************************************************************************)
(* The quantities the properties speak of, defined from the inputs of the  *)
(* call as the specification defines them, holder by holder.               *)
(***************************************************************************)
Done == pc = "done"

Succeeded == Done /\ result.status = "ok"

Failed == Done /\ result.status = "DistributionError"

HolderIds == 1..Len(holders)

\* total_cash - keep_cash, in cents
DistributableCents == total_cash - keep_cash

PercentSum ==
    LET S[i \in 0..Len(holders)] == IF i = 0 THEN 0 ELSE S[i - 1] + holders[i].percent
    IN S[Len(holders)]

\* The inputs compute_distribution is specified to accept.
Accepted == PercentSum = HundredPercent /\ keep_cash >= 0 /\ DistributableCents >= 0

\* Half-up rounding of micro units to cents, ties away from zero.
RoundHalfUp(x) ==
    IF x >= 0 THEN (x + 5000) \div 10000 ELSE -((5000 - x) \div 10000)

\* The entry of d for holder i: under the exact name, else under the lowercased
\* name, else 0 (cents).
EntryOf(d, i) ==
    IF holders[i].name \in DOMAIN d THEN d[holders[i].name]
    ELSE IF Lower(holders[i].name) \in DOMAIN d THEN d[Lower(holders[i].name)]
    ELSE 0

\* entitlement = distributable * percent / 100, unrounded (micro units)
EntitlementOf(i) == DistributableCents * holders[i].percent

\* rawBalance = entitlement - advance + priorCarry, unrounded (micro units)
RawBalanceOf(i) ==
    EntitlementOf(i) - 10000 * EntryOf(advances, i) + 10000 * EntryOf(carry, i)

TotalPositiveRaw ==
    LET S[i \in 0..Len(holders)] ==
            IF i = 0 THEN 0
            ELSE S[i - 1] + (IF RawBalanceOf(i) > 0 THEN RawBalanceOf(i) ELSE 0)
    IN S[Len(holders)]

\* totalPositiveRaw > distributable
Scaling == TotalPositiveRaw > 10000 * DistributableCents

\* No two holders of the registry have names that are equal when case is ignored.
DistinctNames ==
    \A i, j \in HolderIds : i # j => Lower(holders[i].name) # Lower(holders[j].name)

(***************************************************************************)
(* Properties.                                                             *)
(***************************************************************************)
\* C1: in every successful computation, total_paid <= distributable.  Stated
\* for the registries whose names are distinct when case is ignored.
C1_NeverOverDistributes ==
    (Succeeded /\ DistinctNames) => result.total_paid <= result.distributable

\* C2: the call raises DistributionError, for the percentages and with no
\* result, whenever the percentages do not sum to exactly 100, whatever the
\* other inputs are; and it does not raise for the percentages when they do.
C2_PercentSumChecked ==
    Done => /\ PercentSum # HundredPercent => result = Raised("percent")
            /\ PercentSum = HundredPercent => result.reason # "percent"

\* C2 witness: a registry of 99.99% is refused for its percentages although
\* keep_cash is negative as well.
C2_Witness ==
    /\ Done
    /\ PercentSum = 9999
    /\ keep_cash < 0
    /\ result = Raised("percent")

\* C3: the call raises DistributionError exactly when the percentages do not
\* sum to 100, keep_cash < 0 or total_cash - keep_cash < 0; in every other case
\* it returns a result with the month, the distributable, one row per holder
\* and both totals, and it never ends in any other exception.
C3_FailsIffInvalid ==
    Done => /\ result.status \in {"ok", "DistributionError"}
            /\ result.status = "DistributionError" <=> ~Accepted
            /\ result.status = "DistributionError" => result.rows = <<>>
            /\ result.status = "ok" =>
                  /\ result.month = month
                  /\ result.distributable = DistributableCents
                  /\ Len(result.rows) = Len(holders)
                  /\ \A i \in HolderIds : result.rows[i].name = holders[i].name

\* C3 witness: an accepted call whose totalPositiveRaw is 0 returns its rows.
C3_Witness ==
    /\ Succeeded
    /\ Len(holders) = 2
    /\ TotalPositiveRaw = 0
    /\ DistributableCents = 0

RECURSIVE GCD(_, _)
GCD(a, b) == IF b = 0 THEN a ELSE GCD(b, a % b)

\* rawBalance_i * distributable / totalPositiveRaw, rounded half-up to cents,
\* in exact arithmetic (for rawBalance_i > 0 and totalPositiveRaw > 0).
ExactScaledPay(i) ==
    LET g == GCD(DistributableCents, TotalPositiveRaw)
        p == DistributableCents \div g
        q == TotalPositiveRaw \div g
    IN (2 * RawBalanceOf(i) * p + q) \div (2 * q)

\* The settlement of the call is the given example.
IsExample(hs, tc, adv, car) ==
    /\ holders = hs
    /\ total_cash = tc
    /\ keep_cash = 0
    /\ advances = adv
    /\ carry = car

\* C4: when totalPositiveRaw <= distributable every row's paid is
\* max(rawBalance, 0) rounded half-up; 60%/40% of 1000.00 pays 600.00 and
\* 400.00 and carries 0.00 and 0.00.
C4_NoScalingPaysRaw ==
    /\ (Succeeded /\ ~Scaling) =>
          \A i \in HolderIds :
             result.rows[i].paid = RoundHalfUp(Max(RawBalanceOf(i), 0))
    /\ (Succeeded /\ IsExample(<<Holder("Ali", 6000), Holder("Bob", 4000)>>,
                               100000, EmptyDict, EmptyDict)) =>
          /\ result.rows[1].paid = 60000 /\ result.rows[2].paid = 40000
          /\ result.rows[1].new_carry = 0 /\ result.rows[2].new_carry = 0

\* C5: when totalPositiveRaw > distributable every holder with rawBalance > 0
\* is paid rawBalance * distributable / totalPositiveRaw rounded half-up;
\* 50%/50% of 100.00 with 150.00 carried for the first holder pays 87.50 and
\* 12.50, 100.00 in total.  Stated for the registries whose names are distinct
\* when case is ignored.
C5_ProportionalPayout ==
    /\ (Succeeded /\ Scaling /\ DistinctNames) =>
          \A i \in HolderIds :
             RawBalanceOf(i) > 0 => result.rows[i].paid = ExactScaledPay(i)
    /\ (Succeeded /\ IsExample(<<Holder("Ali", 5000), Holder("Bob", 5000)>>,
                               10000, EmptyDict, [k \in {"Ali"} |-> 15000])) =>
          /\ result.rows[1].paid = 8750 /\ result.rows[2].paid = 1250
          /\ result.total_paid = 10000

C7_NonPositiveRawUnpaid ==
    /\ Succeeded =>
          \A i \in HolderIds :
             RawBalanceOf(i) <= 0 =>
                /\ result.rows[i].paid = 0
                /\ result.rows[i].new_carry = RoundHalfUp(RawBalanceOf(i))
    /\ (Succeeded /\ IsExample(<<Holder("Ali", 10000)>>, 10000,
                               [k \in {"Ali"} |-> 15000], EmptyDict)) =>
          /\ result.rows[1].entitlement = 10000
          /\ result.rows[1].paid = 0
          /\ result.rows[1].new_carry = -5000

\* C8: the call on the carry of a successful result, with the same registry,
\* no cash and no advances, succeeds, pays 0.00 to every holder and returns in
\* every row the carry that was fed in under the holder's name.
C8_CarryRoundTrip ==
    (Done /\ round >= 1) =>
       /\ result.status = "ok"
       /\ \A i \in HolderIds :
             /\ result.rows[i].paid = 0
             /\ result.rows[i].new_carry = carry[holders[i].name]

\* C8 witness: an empty period on a carry that holds a credit and a debt.
C8_Witness ==
    /\ Succeeded
    /\ round = 1
    /\ \E i, j \in HolderIds :
          /\ carry[holders[i].name] > 0
          /\ carry[holders[j].name] < 0

\* C9: every row's new_carry is rawBalance - paid rounded half-up, and
\* paid + new_carry is rawBalance rounded half-up.  Stated for the registries
\* whose names are distinct when case is ignored.
C9_PaidPlusCarryIsRaw ==
    (Succeeded /\ DistinctNames) =>
       \A i \in HolderIds :
          /\ result.rows[i].new_carry =
                RoundHalfUp(RawBalanceOf(i) - 10000 * result.rows[i].paid)
          /\ result.rows[i].paid + result.rows[i].new_carry
                = RoundHalfUp(RawBalanceOf(i))

\* The keys of d that equal the name when case is ignored.
MatchingKeys(d, name) == {k \in DOMAIN d : Lower(k) = Lower(name)}

\* C10: an entry of advances or of carry whose key equals a holder's name when
\* case is ignored (the only such entry) is the advance, or the prior carry,
\* netted for that holder.  Stated for the registries whose names are distinct
\* when case is ignored.
C10_CaseInsensitiveKeys ==
    (Succeeded /\ DistinctNames) =>
       \A i \in HolderIds :
          /\ \A k \in MatchingKeys(advances, holders[i].name) :
                MatchingKeys(advances, holders[i].name) = {k}
                   => result.rows[i].advance = advances[k]
          /\ \A k \in MatchingKeys(carry, holders[i].name) :
                MatchingKeys(carry, holders[i].name) = {k}
                   => result.rows[i].prev_carry = carry[k]

\* The dicts of the call as the code builds them.
EntitlementsOfCall == EntitlementsLoop(holders, DistributableCents, Len(holders))

RawBalancesOfCall ==
    RawLoop(holders, EntitlementsOfCall, advances, carry, Len(holders)).raw_balances

TotalPositiveOfCall ==
    RawLoop(holders, EntitlementsOfCall, advances, carry, Len(holders)).total_positive

\* C11: the advance and the prior carry of every holder are the entry under
\* the holder's exact name, else the entry under the lowercased name, else 0
\* (so the exact key wins when both are present), and the raw balance the
\* holder's row is paid from is the entitlement minus the advance plus the
\* prior carry that the row shows.
C11_ExactKeyFirst ==
    Succeeded =>
       \A i \in HolderIds :
          /\ result.rows[i].advance = EntryOf(advances, i)
          /\ result.rows[i].prev_carry = EntryOf(carry, i)
          /\ RawBalancesOfCall[Lower(holders[i].name)]
                = EntitlementsOfCall[Lower(holders[i].name)]
                  - 10000 * result.rows[i].advance + 10000 * result.rows[i].prev_carry

\* The keys of d that are the exact name or the lowercased name of a holder.
MatchedKeys(d) ==
    {k \in DOMAIN d :
        \E i \in HolderIds : k = holders[i].name \/ k = Lower(holders[i].name)}

\* d without its entries whose key matches no holder.
WithoutUnmatched(d) == [k \in MatchedKeys(d) |-> d[k]]

\* C12: the entries of advances and of carry whose key is neither the exact
\* name nor the lowercased name of a holder have no effect: the call returns,
\* or raises, what it does with those entries removed, and the rows are the
\* holders' rows only.
C12_UnmatchedEntriesIgnored ==
    Done =>
       /\ result = compute_distribution(month, holders, total_cash, keep_cash,
                                        WithoutUnmatched(advances),
                                        WithoutUnmatched(carry))
       /\ result.status = "ok" =>
             /\ Len(result.rows) = Len(holders)
             /\ \A i \in HolderIds : result.rows[i].name = holders[i].name

\* C12 witness: a successful call with cash to distribute whose advances and
\* carry both hold an entry that matches no holder.
C12_Witness ==
    /\ Succeeded
    /\ DistributableCents > 0
    /\ MatchedKeys(advances) # DOMAIN advances
    /\ MatchedKeys(carry) # DOMAIN carry
    /\ \E k \in DOMAIN carry : Lower(k) = Lower(holders[1].name)

\* The scale of the call, and whether the code computed it by the division.
ScaleOfCall == Scale(10000 * DistributableCents, TotalPositiveOfCall)

ScalingApplied ==
    TotalPositiveOfCall > 10000 * DistributableCents /\ TotalPositiveOfCall > 0

\* C13, as claimed: whenever shortfall scaling is applied the scale lies
\* strictly between 0 and 1, and in every other accepted computation it is
\* exactly 1.
C13_ScaleStrictlyBetween ==
    Succeeded =>
       /\ ScalingApplied => ~DecIsZero(ScaleOfCall) /\ DecLtOne(ScaleOfCall)
       /\ ~ScalingApplied => ScaleOfCall = DecOne

\* C13, amended: whenever shortfall scaling is applied the scale is at least 0
\* and strictly less than 1, and it is 0 exactly when distributable is 0; in
\* every other accepted computation it is exactly 1.
C13_ScaleBelowOne ==
    Succeeded =>
       /\ ScalingApplied =>
             /\ DecLtOne(ScaleOfCall)
             /\ DecIsZero(ScaleOfCall) <=> DistributableCents = 0
       /\ ~ScalingApplied => ScaleOfCall = DecOne

\* C13 witness: scaling is applied to an empty pool, and the scale is 0.
C13_Witness ==
    /\ Succeeded
    /\ ScalingApplied
    /\ DistributableCents = 0
    /\ DecIsZero(ScaleOfCall)
    /\ \A i \in HolderIds : result.rows[i].paid = 0

\* The sums of the entitlement and of the paid fields of the result's rows.
RowEntitlementSum ==
    LET S[i \in 0..Len(result.rows)] ==
            IF i = 0 THEN 0 ELSE S[i - 1] + result.rows[i].entitlement
    IN S[Len(result.rows)]

RowPaidSum ==
    LET S[i \in 0..Len(result.rows)] ==
            IF i = 0 THEN 0 ELSE S[i - 1] + result.rows[i].paid
    IN S[Len(result.rows)]

\* C14: total_entitlement of a result is the sum of the rounded entitlement
\* fields of its rows.  Stated for the registries whose names are distinct
\* when case is ignored.
C14_TotalEntitlementIsRowSum ==
    (Succeeded /\ DistinctNames) => result.total_entitlement = RowEntitlementSum

\* C15: total_paid of a result is the sum of the paid fields of its rows.
C15_TotalPaidIsRowSum ==
    Succeeded => result.total_paid = RowPaidSum

\* C15 witness: a scaled settlement of two holders who are both paid.
C15_Witness ==
    /\ Succeeded
    /\ ScalingApplied
    /\ Len(result.rows) = 2
    /\ result.rows[1].paid > 0
    /\ result.rows[2].paid > 0
    /\ result.total_paid = result.rows[1].paid + result.rows[2].paid

\* C16: every holder of a registry that the call accepts has a percent in
\* [0, 100], so no row of a result has a negative entitlement.
C16_PercentInRange ==
    Succeeded =>
       \A i \in HolderIds :
          /\ holders[i].percent >= 0
          /\ holders[i].percent <= HundredPercent
          /\ result.rows[i].entitlement >= 0

\* C17: the rows of a result are in registry order, one per holder: rows is
\* as long as holders, and rows[i] carries the name and the percent of
\* holders[i].
C17_RowsInRegistryOrder ==
    Succeeded =>
       /\ Len(result.rows) = Len(holders)
       /\ \A i \in HolderIds :
             /\ result.rows[i].name = holders[i].name
             /\ result.rows[i].percent = holders[i].percent

\* C17 witness: a result for two holders of different names and percentages,
\* in the order of the registry.
C17_Witness ==
    /\ Succeeded
    /\ Len(holders) = 2
    /\ holders[1].name # holders[2].name
    /\ holders[1].percent # holders[2].percent
    /\ result.rows[1].name = holders[1].name
    /\ result.rows[2].percent = holders[2].percent

\* The arguments of the call are those of the first call.
ArgumentsOfFirstCall ==
    /\ first_call.made
    /\ month = first_call.month
    /\ holders = first_call.holders
    /\ total_cash = first_call.total_cash
    /\ keep_cash = first_call.keep_cash
    /\ advances = first_call.advances
    /\ carry = first_call.carry

C19_InputsUnchanged ==
    [][(pc \in {"ready", "again"} /\ pc' \in {"done", "redone"}) =>
          /\ holders' = holders
          /\ advances' = advances
          /\ carry' = carry]_vars

\* C19 witness: a successful call has returned a new carry for a holder that
\* differs from the entry the carry dict still holds for that holder.
C19_Witness ==
    /\ Succeeded
    /\ \E i \in HolderIds :
          /\ holders[i].name \in DOMAIN carry
          /\ result.rows[i].new_carry # carry[holders[i].name]
          /\ first_call.carry = carry

\* The names of the rows of the result.
RowNames == {result.rows[i].name : i \in 1..Len(result.rows)}

\* C20: after a successful close the carry store holds the new_carry of every
\* row under the holder's name and nothing else: the entries it held before
\* under other keys are gone.
C20_CarryStoreReplaced ==
    (pc = "closed" /\ result.status = "ok") =>
       /\ DOMAIN carry_store = RowNames
       /\ \A i \in 1..Len(result.rows) :
             StrToDecimal(carry_store[result.rows[i].name]) = result.rows[i].new_carry

\* C20 witness: a successful close on a store that held a balance under the
\* lowercased name of a holder and one for a name that is not in the registry:
\* the holder's balance is kept under the holder's name and both keys are gone.
C20_Witness ==
    /\ pc = "closed"
    /\ result.status = "ok"
    /\ Len(holders) = 1
    /\ {Lower(holders[1].name), "Bob"} \subseteq DOMAIN carry
    /\ Lower(holders[1].name) # holders[1].name
    /\ DOMAIN carry_store = {holders[1].name}
    /\ StrToDecimal(carry_store[holders[1].name]) # 0

\* C21: a close that fails leaves the carry store as it was: the store is
\* written only by the step that follows a successful computation, never when
\* compute_distribution raised DistributionError and never when the registry
\* or the ledger entry of the month is missing.
C21_FailedCloseKeepsCarry ==
    [][carry_store' # carry_store => (pc = "done" /\ result.status = "ok")]_vars

\* C21 witness: a close has ended in DistributionError and the store still
\* holds the balances that were loaded.
C21_Witness ==
    /\ pc = "closed"
    /\ result.status = "DistributionError"
    /\ carry_store # EmptyDict
    /\ load_carry(carry_store) = carry

\* A close has ended for want of the registry or of the ledger entry.
C21_MissingDataReached ==
    /\ pc = "closed"
    /\ result.status \in {"FileNotFoundError", "KeyError"}
    /\ carry_store # EmptyDict

\* The digits of the value handed to the rounding: how many whole cents it
\* has, its third decimal, and whether anything follows the third decimal.
WholeCents(u) ==
    IF ~u.scaled THEN u.pay \div 10000
    ELSE LET n == Prec + u.product.exp - 4
         IN IF n <= 0 THEN 0 ELSE IntOf(u.product.coef, n)

ThirdDecimal(u) ==
    IF ~u.scaled THEN (u.pay % 10000) \div 1000
    ELSE LET n == Prec + u.product.exp - 4
         IN IF n < 0 \/ n >= Prec THEN 0 ELSE u.product.coef[n + 1]

NothingAfterThird(u) ==
    IF ~u.scaled THEN u.pay % 1000 = 0
    ELSE LET n == Prec + u.product.exp - 4
         IN \A i \in 1..Prec : i > n + 1 => u.product.coef[i] = 0

UnroundedPayOfRow(i) ==
    UnroundedPay(RawBalancesOfCall[Lower(holders[i].name)], ScaleOfCall)

\* C22: paid is the value handed to the rounding, which is the clamped raw
\* balance times the scale and is never negative, rounded half-up to cents
\* once: its whole cents, plus one when its third decimal is 5 or more; a third
\* decimal of exactly 5 with nothing after it gives the next higher cent.
C22_PaidRoundedHalfUpOnce ==
    Succeeded =>
        LET raw_balances == RawBalancesOfCall
            scale == ScaleOfCall
        IN \A i \in HolderIds :
               LET u == UnroundedPay(raw_balances[Lower(holders[i].name)], scale)
                   cents == WholeCents(u)
                   third == ThirdDecimal(u)
               IN /\ u.pay >= 0
                  /\ result.rows[i].paid = cents + (IF third >= 5 THEN 1 ELSE 0)
                  /\ (third = 5 /\ NothingAfterThird(u))
                         => result.rows[i].paid = cents + 1

\* C22 witness: on a registry of distinct names with percents from 0 to 100, a
\* scaled payout that is exactly half a cent above a whole cent has been rounded
\* up.
C22_Witness ==
    /\ Succeeded
    /\ DistinctNames
    /\ \A i \in HolderIds : holders[i].percent \in 0..HundredPercent
    /\ \E i \in HolderIds :
           LET u == UnroundedPayOfRow(i)
           IN /\ u.scaled
              /\ ThirdDecimal(u) = 5
              /\ NothingAfterThird(u)
              /\ result.rows[i].paid = WholeCents(u) + 1

\* A negative raw balance has been clamped: the row is paid 0.00.
C22_ClampReached ==
    /\ Succeeded
    /\ \E j \in HolderIds :
           /\ RawBalancesOfCall[Lower(holders[j].name)] < 0
           /\ UnroundedPayOfRow(j).pay = 0
           /\ result.rows[j].paid = 0

RowNewCarrySum ==
    LET S[i \in 0..Len(result.rows)] ==
            IF i = 0 THEN 0 ELSE S[i - 1] + result.rows[i].new_carry
    IN S[Len(result.rows)]

\* The exact entitlement of every holder is a whole number of cents.
WholeCentEntitlements == \A i \in HolderIds : EntitlementOf(i) % 10000 = 0

\* Every key of advances and of carry is the name of a holder or its
\* lowercased form.
KeysMatchHolders ==
    \A k \in (DOMAIN advances) \cup (DOMAIN carry) :
        \E i \in HolderIds : k = holders[i].name \/ k = Lower(holders[i].name)

\* No holder has an entry both under the exact name and under a different
\* lowercased form of it.
NoShadowedKeys ==
    \A i \in HolderIds :
        holders[i].name # Lower(holders[i].name) =>
            /\ ~({holders[i].name, Lower(holders[i].name)} \subseteq DOMAIN advances)
            /\ ~({holders[i].name, Lower(holders[i].name)} \subseteq DOMAIN carry)

\* total_paid + sum(new_carry) = distributable - sum(advances) + sum(carry)
Conserved ==
    result.total_paid + RowNewCarrySum
        = DistributableCents - SumValues(advances) + SumValues(carry)

\* C23: when the advances, the carry and the exact entitlements are whole
\* cents and every advance and carry key matches a holder, a successful
\* computation conserves the ledger: total_paid plus the new_carry of the rows
\* is distributable minus the advances plus the prior carry.  Stated for the
\* registries whose names are distinct when case is ignored.
C23_LedgerConserved ==
    (Succeeded /\ DistinctNames /\ WholeCentEntitlements /\ KeysMatchHolders)
        => Conserved

\* What holds instead: the ledger is conserved when, besides, no holder has
\* an entry under both forms of the name.
C23_ConservedWithoutShadowedKeys ==
    (Succeeded /\ DistinctNames /\ WholeCentEntitlements /\ KeysMatchHolders
        /\ NoShadowedKeys) => Conserved

\* C24: every row of every successful result has paid >= 0, whatever the
\* advances, the carry and the scale are.
C24_PaidNeverNegative ==
    Succeeded => \A i \in HolderIds : result.rows[i].paid >= 0

\* C24 witness: under shortfall scaling, a holder whose raw balance is at least
\* a cent below zero is paid 0.00 while another holder is paid.
C24_Witness ==
    /\ Succeeded
    /\ ScalingApplied
    /\ \E i, j \in HolderIds :
           /\ RawBalancesOfCall[Lower(holders[i].name)] <= -10000
           /\ result.rows[i].paid = 0
           /\ result.rows[j].paid > 0

\* C25: every row is computed from its holder's own percent, advance and
\* carry, also when names of the registry are equal or differ only in case: the
\* entitlement of row i is distributable * percent_i / 100 rounded to cents, the
\* raw balance the row is paid from is that entitlement minus the holder's
\* advance plus the holder's carry, and the unrounded entitlements sum to
\* distributable.
C25_RowsFromOwnData ==
    Succeeded =>
        /\ \A i \in HolderIds :
               /\ result.rows[i].entitlement = RoundHalfUp(EntitlementOf(i))
               /\ RawBalancesOfCall[Lower(holders[i].name)] = RawBalanceOf(i)
        /\ SumValues(EntitlementsOfCall) = 10000 * DistributableCents

\* What holds instead: the rows are computed from the holders' own data on the
\* registries whose names are distinct when case is ignored.
C25_OwnDataWhenNamesDistinct ==
    DistinctNames => C25_RowsFromOwnData

\* Every percent of the registry lies between 0 and 100.
PercentsInRange == \A i \in HolderIds : holders[i].percent \in 0..HundredPercent

\* C26: when no shortfall scaling is applied (totalPositiveRaw <=
\* distributable), every holder with rawBalance > 0 is settled in full: the
\* new_carry of the row is 0.00, also when the exact rawBalance has more than
\* 2 decimals.  Stated for the registries whose names are distinct when case is
\* ignored and whose percents lie between 0 and 100.
C26_SettledInFullWithoutScaling ==
    (Succeeded /\ DistinctNames /\ PercentsInRange /\ ~Scaling) =>
        \A i \in HolderIds :
            RawBalanceOf(i) > 0 => result.rows[i].new_carry = 0

\* What holds instead: without scaling, a holder whose positive rawBalance is a
\* whole number of cents is settled in full.
C26_SettledInFullOnWholeCents ==
    (Succeeded /\ DistinctNames /\ ~Scaling) =>
        \A i \in HolderIds :
            (RawBalanceOf(i) > 0 /\ RawBalanceOf(i) % 10000 = 0)
                => result.rows[i].new_carry = 0

\* C27: under shortfall scaling (totalPositiveRaw > distributable) no creditor
\* becomes a debtor: for every holder with rawBalance > 0 the rounded new_carry
\* is 0.00 or more, and it is more than 0.00 whenever rawBalance - paid is
\* 0.005 or more.
C27_NoCreditorBecomesDebtor ==
    (Succeeded /\ Scaling) =>
        \A i \in HolderIds :
            RawBalanceOf(i) > 0 =>
                /\ result.rows[i].new_carry >= 0
                /\ RawBalanceOf(i) - 10000 * result.rows[i].paid >= 5000
                       => result.rows[i].new_carry > 0

\* What holds instead: no creditor becomes a debtor under scaling on the
\* registries whose names are distinct when case is ignored.
C27_NoDebtorWhenNamesDistinct ==
    DistinctNames => C27_NoCreditorBecomesDebtor

\* entitlement - advance + prev_carry = paid + new_carry on the fields of row i
Reconciles(i) ==
    LET r == result.rows[i]
    IN r.entitlement - r.advance + r.prev_carry = r.paid + r.new_carry

\* C28: with advances and carry in whole cents, every row of a successful
\* result reconciles on its own rounded fields: entitlement - advance +
\* prev_carry = paid + new_carry.  Stated for the registries whose names are
\* distinct when case is ignored and whose percents lie between 0 and 100.
C28_RowReconciles ==
    (Succeeded /\ DistinctNames /\ PercentsInRange) =>
        \A i \in HolderIds : Reconciles(i)

\* What holds instead: the rows reconcile when, besides, the exact
\* entitlements are whole cents.
C28_ReconcilesOnWholeCents ==
    (Succeeded /\ DistinctNames /\ WholeCentEntitlements) =>
        \A i \in HolderIds : Reconciles(i)

\* C29: closing the same period again, with the registry and the ledger entry
\* unchanged, leaves the carry store as the close before left it: the save of
\* every close after the first writes back the balances it read.
C29_SecondCloseKeepsCarry ==
    [][(pc = "done" /\ result.status = "ok" /\ round >= 1 /\ pc' = "closed")
          => carry_store' = carry_store]_vars

====
